---- MODULE Spec2Model ----
(***************************************************************************)
(* pyerz: CodeWriter (line classifier, line wrapping, pagination) and      *)
(* CodeFinder / main (file selection), modelled from src/pyerz/pyerz.py.   *)
(*                                                                         *)
(* A character is its code point (Python's ord) and a string the sequence   *)
(* of its characters: "/*" is <<47, 42>>, written str(<<"/", "*">>).        *)
(* Python's None is the empty tuple; a comment pair is the 2-tuple          *)
(* <<start, end>>.                                                          *)
(***************************************************************************)
EXTENDS Integers, Sequences, FiniteSets

VARIABLES
    \* ---- CodeWriter fields (pyerz.py 140-154)
    command_chars,            \* self.command_chars
    chars_in_line,            \* self.chars_in_line (already doubled, line 146)
    insert_page,              \* self.insert_page
    multiline_comment_pairs,  \* self.multiline_comment_pairs
    current_comment_pair,     \* self.current_comment_pair
    total_paragraph_count,    \* self.total_paragraph_count
    \* ---- self.document, kept as the number of paragraphs appended to it and
    \* ---- the numbers of the paragraphs whose run carries a page break
    doc_count,
    doc_breaks,
    \* ---- position of write_file: "idle" (not in a call) or "writing" (in its loop)
    pc,
    \* ---- observation of the run (not program state)
    last,                     \* the last iteration of write_file's loop
    file_start_count,         \* total_paragraph_count when the current call began
    file_start_doc,           \* doc_count when the current call began
    file_has_code,            \* some line of the current file was emitted
    fresh_pair,               \* scanner of a new writer given the same file first
    \* ---- the file system, and the run of main (pyerz.py 340-358)
    fs,
    stage,
    run

wvars == <<command_chars, chars_in_line, insert_page, multiline_comment_pairs,
           current_comment_pair, total_paragraph_count, doc_count, doc_breaks,
           pc, last, file_start_count, file_start_doc, file_has_code, fresh_pair>>
fvars == <<fs, stage, run>>
vars == <<command_chars, chars_in_line, insert_page, multiline_comment_pairs,
          current_comment_pair, total_paragraph_count, doc_count, doc_breaks,
          pc, last, file_start_count, file_start_doc, file_has_code, fresh_pair,
          fs, stage, run>>

(***************************************************************************)
(* Bounds of the model.                                                    *)
(***************************************************************************)
MaxLineLen == 3
MaxLongLen == 6
MaxCharsInLine == 2
MaxParagraphs == 1
MaxWrapParagraphs == 4
MaxPageParagraphs == 101
MaxEntries == 3
MaxRoots == 2

(***************************************************************************)
(* Program constants.                                                      *)
(***************************************************************************)
PageSize == 50
DefaultCharsInLine == 30

None == << >>

(***************************************************************************)
(* Characters and strings.                                                 *)
(***************************************************************************)
\* The printable ASCII characters U+0020 .. U+005F and U+0061 .. U+007E, in the
\* order of their code points
Ascii20 ==
    <<" ", "!", "\"", "#", "$", "%", "&", "'", "(", ")", "*", "+",
      ",", "-", ".", "/", "0", "1", "2", "3", "4", "5", "6", "7",
      "8", "9", ":", ";", "<", "=", ">", "?", "@", "A", "B", "C",
      "D", "E", "F", "G", "H", "I", "J", "K", "L", "M", "N", "O",
      "P", "Q", "R", "S", "T", "U", "V", "W", "X", "Y", "Z", "[",
      "\\", "]", "^", "_">>

Ascii61 ==
    <<"a", "b", "c", "d", "e", "f", "g", "h", "i", "j", "k", "l",
      "m", "n", "o", "p", "q", "r", "s", "t", "u", "v", "w", "x",
      "y", "z", "{", "|", "}", "~">>

\* ord(c) of an ASCII character written as a one-character string
ord(c) ==
    IF c = "\t" THEN 9
    ELSE IF c = "\n" THEN 10
    ELSE IF c = "\f" THEN 12
    ELSE IF c = "\r" THEN 13
    ELSE IF \E n \in 1..Len(Ascii20) : Ascii20[n] = c
    THEN 31 + (CHOOSE n \in 1..Len(Ascii20) : Ascii20[n] = c)
    ELSE 96 + (CHOOSE n \in 1..Len(Ascii61) : Ascii61[n] = c)

\* the string made of the characters cs
str(cs) == [i \in 1..Len(cs) |-> ord(cs[i])]

Slash == ord("/")
Dot == ord(".")
Tab == ord("\t")
Newline == str(<<"\n">>)

DEFAULT_COMMENT_CHARS == << str(<<"#">>), str(<<"/", "/">>) >>

DEFAULT_MULTILINE_COMMENT_PAIRS ==
    << << str(<<"\"", "\"", "\"">>), str(<<"\"", "\"", "\"">>) >>,
       << str(<<"'", "'", "'">>), str(<<"'", "'", "'">>) >>,
       << str(<<"/", "*">>), str(<<"*", "/">>) >> >>

\* A caller-given table (--multiline-comment-start "'" "/*", -end "'" "*/"):
\* a quote pair whose start and end are equal, then the C pair.
ShortPairs ==
    << << str(<<"'">>), str(<<"'">>) >>,
       << str(<<"/", "*">>), str(<<"*", "/">>) >> >>

(***************************************************************************)
(* Python string primitives.                                               *)
(***************************************************************************)
\* The 29 characters str.isspace() is true of, which are those rstrip() and
\* lstrip() remove: U+0009 .. U+000D (\t \n VT \f \r), U+001C .. U+001F, U+0020,
\* U+0085, U+00A0, U+1680, U+2000 .. U+200A, U+2028, U+2029, U+202F, U+205F and
\* U+3000 (the ideographic space).
WhiteSpace ==
    (9..13) \cup (28..32) \cup {133, 160, 5760} \cup (8192..8202)
        \cup {8232, 8233, 8239, 8287, 12288}

\* c.isspace()
IsSpace(c) == c \in WhiteSpace

RECURSIVE rstrip(_)
rstrip(s) ==
    IF s = << >> THEN s
    ELSE IF IsSpace(s[Len(s)]) THEN rstrip(SubSeq(s, 1, Len(s) - 1))
    ELSE s

RECURSIVE lstrip(_)
lstrip(s) ==
    IF s = << >> THEN s
    ELSE IF IsSpace(s[1]) THEN lstrip(Tail(s))
    ELSE s

\* s[i:] with a 0-based i
slice_from(s, i) == SubSeq(s, i + 1, Len(s))

\* s[i:j] with 0-based i, j (0 <= i; j clipped to len(s))
slice(s, i, j) == SubSeq(s, i + 1, IF j < Len(s) THEN j ELSE Len(s))

\* s.find(d, i): the least 0-based offset >= i at which d occurs, or -1
RECURSIVE str_find(_, _, _)
str_find(s, d, i) ==
    IF i + Len(d) > Len(s) THEN -1
    ELSE IF SubSeq(s, i + 1, i + Len(d)) = d THEN i
    ELSE str_find(s, d, i + 1)

\* d in s
str_in(d, s) == str_find(s, d, 0) >= 0

\* s.index(d), used only where d in s
str_index(s, d) == str_find(s, d, 0)

startswith(s, p) == Len(p) <= Len(s) /\ SubSeq(s, 1, Len(p)) = p

endswith(s, p) == Len(p) <= Len(s) /\ SubSeq(s, Len(s) - Len(p) + 1, Len(s)) = p

\* math.ceil(a / b) for a >= 0, b > 0
ceil_div(a, b) == IF a % b = 0 THEN a \div b ELSE (a \div b) + 1

(***************************************************************************)
(* CodeWriter.is_blank_line and CodeWriter.is_comment_line.                *)
(***************************************************************************)
is_blank_line(line) == line = << >>

\* pairs_loop with the end delimiter looked for in the whole line, not only
\* after the start delimiter
RECURSIVE pairs_loop_end_anywhere(_, _, _)
pairs_loop_end_anywhere(line, pairs, k) ==
    IF k > Len(pairs) THEN [hit |-> FALSE, ret |-> FALSE, pair |-> None]
    ELSE IF str_in(pairs[k][1], line)
         THEN IF str_in(pairs[k][2], line)
              THEN [hit |-> TRUE, ret |-> TRUE, pair |-> None]
              ELSE [hit |-> TRUE, ret |-> TRUE, pair |-> <<pairs[k][1], pairs[k][2]>>]
         ELSE pairs_loop_end_anywhere(line, pairs, k + 1)

\* the loop over self.multiline_comment_pairs (lines 175-181), from pair k on;
\* hit = FALSE when the loop ends without returning
RECURSIVE pairs_loop(_, _, _)
pairs_loop(line, pairs, k) ==
    IF k > Len(pairs) THEN [hit |-> FALSE, ret |-> FALSE, pair |-> None]
    ELSE LET start_char == pairs[k][1]
             end_char == pairs[k][2]
         IN IF str_in(start_char, line)
            THEN IF str_in(end_char,
                           slice_from(line, str_index(line, start_char) + Len(start_char)))
                 THEN [hit |-> TRUE, ret |-> TRUE, pair |-> None]
                 ELSE [hit |-> TRUE, ret |-> TRUE, pair |-> <<start_char, end_char>>]
            ELSE pairs_loop(line, pairs, k + 1)

\* the loop over self.command_chars (lines 184-189)
RECURSIVE chars_loop(_, _, _)
chars_loop(line, chars, k) ==
    IF k > Len(chars) THEN FALSE
    ELSE IF startswith(line, chars[k]) THEN TRUE
    ELSE chars_loop(line, chars, k + 1)

\* is_comment_line that never leaves an open comment
is_comment_line_never_closes(line0, cur, pairs, chars) ==
    LET line == lstrip(line0) IN
    IF cur # None THEN [ret |-> TRUE, pair |-> cur]
    ELSE LET m == pairs_loop(line, pairs, 1) IN
         IF m.hit THEN [ret |-> m.ret, pair |-> m.pair]
         ELSE [ret |-> chars_loop(line, chars, 1), pair |-> None]

\* is_comment_line(line) with self.current_comment_pair = cur: the value
\* returned and the value of self.current_comment_pair afterwards
is_comment_line(line0, cur, pairs, chars) ==
    LET line == lstrip(line0) IN
    IF cur # None
    THEN IF str_in(cur[2], line)
         THEN [ret |-> TRUE, pair |-> None]
         ELSE [ret |-> TRUE, pair |-> cur]
    ELSE LET m == pairs_loop(line, pairs, 1) IN
         IF m.hit THEN [ret |-> m.ret, pair |-> m.pair]
         ELSE [ret |-> chars_loop(line, chars, 1), pair |-> None]

\* classify with the comment test made before the blank test
classify_comment_first(raw, cur, pairs, chars) ==
    LET line == rstrip(raw)
        c == is_comment_line(line, cur, pairs, chars)
    IN IF c.ret THEN [cls |-> "COMMENT", pair |-> c.pair]
       ELSE IF is_blank_line(line) THEN [cls |-> "BLANK", pair |-> c.pair]
       ELSE [cls |-> "CODE", pair |-> c.pair]

\* what write_file does with one line (lines 209-213): its class and the scanner
classify(raw, cur, pairs, chars) ==
    LET line == rstrip(raw) IN
    IF is_blank_line(line) THEN [cls |-> "BLANK", pair |-> cur]
    ELSE LET c == is_comment_line(line, cur, pairs, chars) IN
         [cls |-> IF c.ret THEN "COMMENT" ELSE "CODE", pair |-> c.pair]

(***************************************************************************)
(* The layout loop of write_file (lines 214-235).                          *)
(***************************************************************************)
\* part_count rounding down
part_count_floor(line, width) == Len(line) \div width

\* range(math.ceil(len(line) / self.chars_in_line))
part_count(line, width) == ceil_div(Len(line), width)

\* line_part of iteration i (lines 216-221)
line_part(line, width, i) ==
    LET start == i * width
        remain == Len(line) - start
    IN IF remain >= width
       THEN slice(line, start, start + width - 1)
       ELSE slice_from(line, start)

\* whether the paragraph that makes the counter reach `count` gets a page break
page_break(count, insert) == count % PageSize = 0 /\ insert

\* iterations i .. n-1 of the loop, from the writer state st
RECURSIVE emit_loop(_, _, _, _, _, _)
emit_loop(line, width, insert, i, n, st) ==
    IF i >= n THEN st
    ELSE LET count == st.count + 1
             para == st.doc + 1
         IN emit_loop(line, width, insert, i + 1, n,
                [count |-> count,
                 doc |-> para,
                 breaks |-> IF page_break(count, insert)
                            THEN st.breaks \cup {para} ELSE st.breaks,
                 parts |-> Append(st.parts, line_part(line, width, i))])

emit_line(line, width, insert, st) ==
    emit_loop(line, width, insert, 0, part_count(line, width), st)

(***************************************************************************)
(* write_file as a function of the writer's state                          *)
(* w = [pair, count, doc, breaks]: self.current_comment_pair,              *)
(* self.total_paragraph_count and self.document.                           *)
(***************************************************************************)
\* CodeWriter.__init__ (lines 149-154)
new_writer == [pair |-> None, count |-> 0, doc |-> 0, breaks |-> {}]

\* write_file_begin without the reset of the scanner
write_file_begin_no_reset(w) == w

\* write_file_begin that also restarts the counter
write_file_begin_reset_count(w) == [w EXCEPT !.pair = None, !.count = 0]

\* line 206
write_file_begin(w) == [w EXCEPT !.pair = None]

\* write_file_line without the `continue` after a comment line
write_file_line_emit_comments(raw, w, pairs, chars, width, insert) ==
    LET line == rstrip(raw)
        c == classify(raw, w.pair, pairs, chars)
        st0 == [count |-> w.count, doc |-> w.doc, breaks |-> w.breaks, parts |-> << >>]
        st == IF c.cls # "BLANK" THEN emit_line(line, width, insert, st0) ELSE st0
    IN [pair |-> c.pair, count |-> st.count, doc |-> st.doc, breaks |-> st.breaks,
        cls |-> c.cls, parts |-> st.parts]

\* one iteration of the loop of lines 208-235 on the line `raw`; cls and parts
\* report the line's class and the texts of the paragraphs it appended
write_file_line(raw, w, pairs, chars, width, insert) ==
    LET line == rstrip(raw)
        c == classify(raw, w.pair, pairs, chars)
        st0 == [count |-> w.count, doc |-> w.doc, breaks |-> w.breaks, parts |-> << >>]
        st == IF c.cls = "CODE" THEN emit_line(line, width, insert, st0) ELSE st0
    IN [pair |-> c.pair, count |-> st.count, doc |-> st.doc, breaks |-> st.breaks,
        cls |-> c.cls, parts |-> st.parts]

(***************************************************************************)
(* The file system: fs[i] = [parent, name, is_file] is entry i, a child of *)
(* entry `parent` (0: the top directory TopPath); a directory lists its    *)
(* children in the order of their numbers, which stands for the order in   *)
(* which scandir yields them.                                              *)
(***************************************************************************)
TopPath == str(<<"/", "r">>)
Sep == str(<<"/">>)
CurDir == str(<<".">>)

DEFAULT_INDIRS == << CurDir >>
DEFAULT_EXTS == << str(<<"p", "y">>) >>

RECURSIVE path_of(_, _)
path_of(f, i) ==
    IF i = 0 THEN TopPath ELSE path_of(f, f[i].parent) \o Sep \o f[i].name

\* os.path.abspath on the paths of the model (absolute and without "." or ".."
\* parts, except "." alone, the working directory TopPath): trailing separators go
RECURSIVE abspath(_)
abspath(p) ==
    IF p = CurDir THEN TopPath
    ELSE IF Len(p) > 1 /\ p[Len(p)] = Slash THEN abspath(SubSeq(p, 1, Len(p) - 1))
    ELSE p

\* os.path.join(indir, name)
path_join(indir, name) ==
    IF indir # << >> /\ indir[Len(indir)] = Slash THEN indir \o name
    ELSE indir \o Sep \o name

\* the numbers of the entries scandir(indir) yields, in order
scandir(f, indir) ==
    SelectSeq([i \in 1..Len(f) |-> i],
              LAMBDA i : path_of(f, f[i].parent) = abspath(indir))

\* del_slash (lines 51-57)
del_slash(dirs) ==
    [k \in 1..Len(dirs) |->
        IF dirs[k][Len(dirs[k])] = Slash THEN SubSeq(dirs[k], 1, Len(dirs[k]) - 1)
        ELSE dirs[k]]

(***************************************************************************)
(* CodeFinder.                                                             *)
(***************************************************************************)
\* is_code (lines 73-77)
RECURSIVE is_code_loop(_, _, _)
is_code_loop(file, exts, k) ==
    IF k > Len(exts) THEN FALSE
    ELSE IF endswith(file, exts[k]) THEN TRUE
    ELSE is_code_loop(file, exts, k + 1)

is_code(file, exts) == is_code_loop(file, exts, 1)

\* is_hidden_file (line 84)
is_hidden_file(file) == file[1] = Dot

\* should_be_excluded (lines 91-100), excludes a list
RECURSIVE excluded_loop(_, _, _)
excluded_loop(file, excludes, k) ==
    IF k > Len(excludes) THEN FALSE
    ELSE IF startswith(file, excludes[k]) THEN TRUE
    ELSE excluded_loop(file, excludes, k + 1)

\* should_be_excluded matching whole path components only
should_be_excluded_by_component(file, excludes) ==
    \E k \in 1..Len(excludes) :
        /\ startswith(file, excludes[k])
        /\ (Len(file) = Len(excludes[k]) \/ file[Len(excludes[k]) + 1] = Slash)

should_be_excluded(file, excludes) ==
    IF excludes = << >> THEN FALSE ELSE excluded_loop(file, excludes, 1)

\* find (lines 112-129): find_loop is the loop over scandir(indir) from its k-th
\* entry on, with `files` collected so far
RECURSIVE find(_, _, _, _)
RECURSIVE find_loop(_, _, _, _, _, _, _)
find_loop(f, indir, entries, k, excludes, exts, files) ==
    IF k > Len(entries) THEN files
    ELSE LET entry_name == f[entries[k]].name
             entry_path == abspath(path_join(indir, entry_name))
         IN IF is_hidden_file(entry_name)
            THEN find_loop(f, indir, entries, k + 1, excludes, exts, files)
            ELSE IF should_be_excluded(entry_path, excludes)
            THEN find_loop(f, indir, entries, k + 1, excludes, exts, files)
            ELSE IF f[entries[k]].is_file
            THEN find_loop(f, indir, entries, k + 1, excludes, exts,
                           IF is_code(entry_name, exts)
                           THEN Append(files, entry_path) ELSE files)
            ELSE find_loop(f, indir, entries, k + 1, excludes, exts,
                           files \o find(f, entry_path, excludes, exts))

find(f, indir, excludes, exts) ==
    find_loop(f, indir, scandir(f, indir), 1, excludes, exts, << >>)

(***************************************************************************)
(* main, lines 326-358.                                                    *)
(***************************************************************************)
RECURSIVE concat(_)
concat(ss) == IF ss = << >> THEN << >> ELSE Head(ss) \o concat(Tail(ss))

\* x in files
list_in(x, files) == \E k \in 1..Len(files) : files[k] = x

\* files.remove(x): the first occurrence goes
RECURSIVE list_remove(_, _)
list_remove(files, x) ==
    IF files = << >> THEN files
    ELSE IF Head(files) = x THEN Tail(files)
    ELSE <<Head(files)>> \o list_remove(Tail(files), x)

\* lines 352-358
place_entry(files, entry_file) ==
    IF entry_file # None /\ entry_file # << >>
    THEN LET entry_path == abspath(entry_file)
         IN <<entry_path>> \o
            (IF list_in(entry_path, files) THEN list_remove(files, entry_path) ELSE files)
    ELSE files

\* the result of lines 326-358: the roots and exclusions as passed to find, what
\* each find returned, and the final list
main_files(f, indirs0, exts0, excludes0, entry_file) ==
    LET indirs1 == IF indirs0 = << >> THEN DEFAULT_INDIRS ELSE indirs0
        exts == IF exts0 = << >> THEN DEFAULT_EXTS ELSE exts0
        indirs == [k \in 1..Len(indirs1) |-> abspath(indirs1[k])]
        excludes == del_slash([k \in 1..Len(excludes0) |-> abspath(excludes0[k])])
        found == [k \in 1..Len(indirs) |-> find(f, indirs[k], excludes, exts)]
    IN [done |-> TRUE, indirs |-> indirs, exts |-> exts, excludes |-> excludes,
        entry |-> IF entry_file # None /\ entry_file # << >>
                  THEN abspath(entry_file) ELSE None,
        found |-> found,
        files |-> place_entry(concat(found), entry_file)]

(***************************************************************************)
(* Inputs.                                                                 *)
(***************************************************************************)
Alphabet == {ord(" "), ord("/"), ord("*"), ord("'")}
Letters == str(<<"a", "b", "c", "d", "e", "f", "g", "h">>)

SeqsUpTo(S, n) == UNION {[1..k -> S] : k \in 0..n}

\* a line of n distinct-looking letters
LongLine(n) == [i \in 1..n |-> Letters[((i - 1) % Len(Letters)) + 1]]

\* the line with its terminator, as the file iterator yields it
Terminated(body) == body \o Newline

\* lines of other white space: tabs alone, among spaces, before a prefix or a
\* delimiter and after the text; other terminators; a last line without one
AsciiWhiteLines ==
    { str(<<"\t", "\n">>), str(<<" ", "\t", " ", "\n">>), str(<<"\t">>), str(<<"\f">>),
      str(<<"\r", "\n">>), str(<<"\t", "/", "/", "\n">>), str(<<"\t", "#", "\n">>),
      str(<<"\t", "'", "\r", "\n">>), str(<<"\t", "/", "*", "\n">>),
      str(<<"*", "/", "\t", "\n">>), str(<<"/", "\t", "\r">>),
      str(<<"\t", "*", "\t", "\n">>), str(<<"/", "/">>), str(<<"'">>), str(<<"*">>) }

\* lines of white space outside ASCII: the ideographic space U+3000 alone,
\* before a prefix and after the text; a no-break space U+00A0 before a
\* delimiter; a line ended by U+2028, by U+0085 and by U+000B; and a line of
\* U+00E9, which is not white space
UnicodeWhiteLines ==
    { <<12288>> \o Newline, <<12288>> \o str(<<"#", "\n">>),
      str(<<"/">>) \o <<12288>> \o Newline, <<160>> \o str(<<"'", "\n">>),
      str(<<"/">>) \o <<8232>>, <<133>>, <<8195, 11>>, <<233>> \o Newline }

WhiteLines == AsciiWhiteLines \cup UnicodeWhiteLines

\* the lines the iterator of the file yields (line 208): every text over the
\* alphabet with its terminator, and the lines of other white space
Lines == {Terminated(body) : body \in SeqsUpTo(Alphabet, MaxLineLen)} \cup WhiteLines

\* lines for the layout loop: code lines of every length, one of them indented
\* by a tab, blank lines and a comment
WrapLines ==
    {Terminated(LongLine(n)) : n \in 1..MaxLongLen}
        \cup {str(<<" ", "\t", "\n">>), <<12288>> \o str(<<"/", "/", "\n">>),
              str(<<"\t", "a", "b">>) \o <<12288>> \o Newline}

\* lines for a long run
PageLines ==
    {str(<<"\t", "\n">>), <<12288>> \o str(<<"/", "/", "\n">>), Terminated(LongLine(1)),
     Terminated(LongLine(5))}

\* no line of the file handled yet; `before` is the scanner as the call found it
NoLine(before, count, doc) ==
    [raw |-> << >>, before |-> before, cls |-> "NONE", fresh_cls |-> "NONE",
     parts |-> << >>, count_before |-> count, doc_before |-> doc]
NoRun == [done |-> FALSE, indirs |-> << >>, exts |-> << >>, excludes |-> << >>,
          entry |-> None, found |-> << >>, files |-> << >>]

(***************************************************************************)
(* The writer: initial state and actions. A call of write_file is its      *)
(* reset (WriteFileBegin), one step per line the file iterator yields      *)
(* (WriteFileLine, a whole iteration of the loop with all the fragments of *)
(* the line), and its return when the file is exhausted (WriteFileEnd).    *)
(* The file's content is the sequence of the lines so read.                *)
(***************************************************************************)
WriterInit(widths, inserts, tables) ==
    /\ command_chars = DEFAULT_COMMENT_CHARS
    /\ chars_in_line \in widths
    /\ insert_page \in inserts
    /\ multiline_comment_pairs \in tables
    /\ current_comment_pair = new_writer.pair
    /\ total_paragraph_count = new_writer.count
    /\ doc_count = new_writer.doc
    /\ doc_breaks = new_writer.breaks
    /\ pc = "idle"
    /\ last = NoLine(None, 0, 0)
    /\ file_start_count = 0
    /\ file_start_doc = 0
    /\ file_has_code = FALSE
    /\ fresh_pair = None

FinderIdle ==
    /\ fs = << >>
    /\ stage = "setup"
    /\ run = NoRun

\* chars_in_line is doubled by __init__ (line 146)
Init ==
    /\ WriterInit({2 * DefaultCharsInLine}, {FALSE}, {ShortPairs})
    /\ FinderIdle

InitWrap ==
    /\ WriterInit({2 * c : c \in 1..MaxCharsInLine}, {FALSE},
                  {DEFAULT_MULTILINE_COMMENT_PAIRS})
    /\ FinderIdle

InitPage ==
    /\ WriterInit({2}, BOOLEAN, {DEFAULT_MULTILINE_COMMENT_PAIRS})
    /\ FinderIdle

Writer == [pair |-> current_comment_pair, count |-> total_paragraph_count,
           doc |-> doc_count, breaks |-> doc_breaks]

\* main's loop calls writer.write_file(file) (lines 373-374): the call begins
WriteFileBegin ==
    /\ pc = "idle"
    /\ LET w == write_file_begin(Writer) IN
       /\ current_comment_pair' = w.pair
       /\ total_paragraph_count' = w.count
       /\ doc_count' = w.doc
       /\ doc_breaks' = w.breaks
       /\ last' = NoLine(current_comment_pair, w.count, w.doc)
    /\ pc' = "writing"
    /\ file_start_count' = total_paragraph_count
    /\ file_start_doc' = doc_count
    /\ file_has_code' = FALSE
    /\ fresh_pair' = write_file_begin(new_writer).pair
    /\ UNCHANGED <<command_chars, chars_in_line, insert_page, multiline_comment_pairs>>
    /\ UNCHANGED fvars

\* the next line of the file is read and handled (one iteration, lines 208-235).
\* The counter and the document have no limit in the program: `cap` is the bound
\* of the model on them, and a line that would pass it is not read.
WriteFileLine(raw, cap) ==
    /\ pc = "writing"
    /\ \E w \in {write_file_line(raw, Writer, multiline_comment_pairs, command_chars,
                                 chars_in_line, insert_page)} :
          /\ w.count <= cap
          /\ w.doc <= cap
          /\ current_comment_pair' = w.pair
          /\ total_paragraph_count' = w.count
          /\ doc_count' = w.doc
          /\ doc_breaks' = w.breaks
          /\ last' = [raw |-> raw, before |-> current_comment_pair, cls |-> w.cls,
                      fresh_cls |-> classify(raw, fresh_pair, multiline_comment_pairs,
                                             command_chars).cls,
                      parts |-> w.parts, count_before |-> total_paragraph_count,
                      doc_before |-> doc_count]
          /\ file_has_code' = (file_has_code \/ w.cls = "CODE")
    /\ fresh_pair' = classify(raw, fresh_pair, multiline_comment_pairs, command_chars).pair
    /\ UNCHANGED <<pc, file_start_count, file_start_doc>>
    /\ UNCHANGED <<command_chars, chars_in_line, insert_page, multiline_comment_pairs>>
    /\ UNCHANGED fvars

\* the file is exhausted: write_file returns (line 236)
WriteFileEnd ==
    /\ pc = "writing"
    /\ pc' = "idle"
    /\ UNCHANGED <<command_chars, chars_in_line, insert_page, multiline_comment_pairs,
                   current_comment_pair, total_paragraph_count, doc_count, doc_breaks,
                   last, file_start_count, file_start_doc, file_has_code, fresh_pair>>
    /\ UNCHANGED fvars

(***************************************************************************)
(* The file system is set up, then main selects the files.                 *)
(***************************************************************************)
Names == { str(<<"s">>), str(<<"s", "a", ".", "p", "y">>),
           str(<<".", "h", ".", "p", "y">>), str(<<"b", ".", "t">>) }

DirsOf(f) == {0} \cup {i \in 1..Len(f) : ~f[i].is_file}

\* the environment creates a file or a directory
AddEntry(parent, name, is_file) ==
    /\ stage = "setup"
    /\ Len(fs) < MaxEntries
    /\ parent \in DirsOf(fs)
    /\ \A i \in 1..Len(fs) : ~(fs[i].parent = parent /\ fs[i].name = name)
    /\ fs' = Append(fs, [parent |-> parent, name |-> name, is_file |-> is_file])
    /\ UNCHANGED <<stage, run>>
    /\ UNCHANGED wvars

\* command lines: -i (directories that exist), --exclude (paths that exist, a
\* directory also with a trailing separator), --entry-file (a file that exists)
DirPaths(f) == {path_of(f, i) : i \in DirsOf(f)}
IndirChoices(f) == UNION {[1..n -> DirPaths(f)] : n \in 0..MaxRoots}
ExcludeChoices(f) ==
    {<< >>} \cup {<<path_of(f, i)>> : i \in 1..Len(f)}
            \cup {<<path_of(f, i) \o Sep>> : i \in DirsOf(f) \ {0}}
ExcludeLists(f) == {<< >>} \cup {<<path_of(f, i)>> : i \in 1..Len(f)}
EntryChoices(f) == {None} \cup {path_of(f, i) : i \in {j \in 1..Len(f) : f[j].is_file}}

\* a call finder.find(indir, excludes) on a CodeFinder(exts) (lines 66-71, 102-129)
Find(indir, excludes, exts0) ==
    /\ stage = "setup"
    /\ stage' = "found"
    /\ LET exts == IF exts0 = << >> THEN DEFAULT_EXTS ELSE exts0
       IN \E files \in {find(fs, indir, excludes, exts)} :
            run' = [done |-> TRUE, indirs |-> <<abspath(indir)>>, exts |-> exts,
                    excludes |-> excludes, entry |-> None,
                    found |-> <<files>>, files |-> files]
    /\ UNCHANGED fs
    /\ UNCHANGED wvars

\* main (lines 326-358)
Main(indirs, excludes, entry_file) ==
    /\ stage = "setup"
    /\ stage' = "selected"
    /\ run' = main_files(fs, indirs, << >>, excludes, entry_file)
    /\ UNCHANGED fs
    /\ UNCHANGED wvars

MakeEntry == \E parent \in 0..MaxEntries, name \in Names, is_file \in BOOLEAN :
                AddEntry(parent, name, is_file)

\* find is called with a directory and with exclusions that are paths of entries
CallFind == \E indir \in DirPaths(fs), excludes \in ExcludeLists(fs) :
                Find(indir, excludes, << >>)

RunMain == \E indirs \in IndirChoices(fs), excludes \in ExcludeChoices(fs),
              entry_file \in EntryChoices(fs) : Main(indirs, excludes, entry_file)

InitFind ==
    /\ WriterInit({2 * DefaultCharsInLine}, {FALSE}, {DEFAULT_MULTILINE_COMMENT_PAIRS})
    /\ FinderIdle

NextFind == MakeEntry \/ CallFind

NextMain == MakeEntry \/ RunMain

SpecFind == InitFind /\ [][NextFind]_vars

SpecMain == InitFind /\ [][NextMain]_vars

ReadLine == \E raw \in Lines : WriteFileLine(raw, MaxParagraphs)

ReadWrapLine == \E raw \in WrapLines : WriteFileLine(raw, MaxWrapParagraphs)

ReadPageLine == \E raw \in PageLines : WriteFileLine(raw, MaxPageParagraphs)

Next == WriteFileBegin \/ ReadLine \/ WriteFileEnd

NextWrap == WriteFileBegin \/ ReadWrapLine \/ WriteFileEnd

NextPage == WriteFileBegin \/ ReadPageLine \/ WriteFileEnd

Spec == Init /\ [][Next]_vars

SpecWrap == InitWrap /\ [][NextWrap]_vars

SpecPage == InitPage /\ [][NextPage]_vars

(***************************************************************************)
(* Vocabulary of the properties, stated on the raw line and not through    *)
(* the operators above. The delimiters and prefixes of the configurations  *)
(* used hold no white space, so a delimiter occurs in the trimmed line     *)
(* exactly where it occurs in the raw line.                                *)
(***************************************************************************)
OccursAt(d, s, i) == i >= 0 /\ i + Len(d) <= Len(s) /\ SubSeq(s, i + 1, i + Len(d)) = d

Occurs(d, s) == \E i \in 0..Len(s) : OccursAt(d, s, i)

\* the end delimiter of pair p occurs after the first occurrence of its start
EndAfterStart(p, s) ==
    \E i \in 0..Len(s) :
        /\ OccursAt(p[1], s, i)
        /\ \A j \in 0..(i - 1) : ~OccursAt(p[1], s, j)
        /\ \E j \in (i + Len(p[1]))..Len(s) : OccursAt(p[2], s, j)

\* the line holds white space only (or nothing)
IsBlankRaw(s) == \A i \in 1..Len(s) : s[i] \in WhiteSpace

\* the line, after its leading white space, starts with d
StartsTrimmed(d, s) ==
    \E k \in 0..Len(s) : (\A i \in 1..k : s[i] \in WhiteSpace) /\ OccursAt(d, s, k)

\* the numbers of the configured pairs whose start delimiter occurs in s
StartHits(s) ==
    {k \in 1..Len(multiline_comment_pairs) : Occurs(multiline_comment_pairs[k][1], s)}

FirstHit(s) == CHOOSE k \in StartHits(s) : \A j \in StartHits(s) : k <= j

HasPrefix(s) == \E k \in 1..Len(command_chars) : StartsTrimmed(command_chars[k], s)

Handled == last.cls # "NONE"

Dropped ==
    /\ last.parts = << >>
    /\ doc_count = last.doc_before
    /\ total_paragraph_count = last.count_before

(***************************************************************************)
(* C1. Numbering the emitted fragments 1, 2, 3, ... across all files of    *)
(* the run, fragment n carries a page break iff insert_page is set and n   *)
(* is a multiple of 50; the numbering (the counter) follows the document   *)
(* and is not restarted at a file boundary.                                *)
(***************************************************************************)
C1_PageBreaks ==
    /\ total_paragraph_count = doc_count
    /\ doc_breaks = {n \in 1..doc_count : insert_page /\ n % 50 = 0}

\* 101 fragments, the 50th written by an earlier file than the 100th
C1_Witness ==
    /\ insert_page
    /\ doc_count = 101
    /\ doc_breaks = {50, 100}
    /\ file_start_doc > 50
    /\ file_start_doc < 100

(***************************************************************************)
(* C2 as claimed. Scanner closed, line k holds the start delimiter of some *)
(* configured pair without its end delimiter after it: the line is COMMENT *)
(* and the scanner is open with that pair; while it is open, every line is *)
(* COMMENT, and it closes exactly on a line that holds the end delimiter.  *)
(***************************************************************************)
C2_AsClaimed ==
    Handled =>
        /\ last.before = None =>
              \A k \in StartHits(last.raw) :
                  ~EndAfterStart(multiline_comment_pairs[k], last.raw) =>
                      /\ last.cls = "COMMENT"
                      /\ current_comment_pair = multiline_comment_pairs[k]
        /\ last.before # None =>
              /\ last.cls = "COMMENT"
              /\ Dropped
              /\ current_comment_pair =
                    IF Occurs(last.before[2], last.raw) THEN None ELSE last.before

(***************************************************************************)
(* C2 amended. Scanner closed, line k not blank, and the first configured  *)
(* pair whose start delimiter occurs in line k has no end delimiter after  *)
(* that start: the line is COMMENT, dropped, and the scanner is open with  *)
(* that pair. While it is                                                  *)
(* open with a pair, a line is BLANK if it is empty after trimming and     *)
(* COMMENT otherwise, it is dropped, and the scanner stays open with the   *)
(* pair unless the line holds the pair's end delimiter, after which it is  *)
(* closed.                                                                 *)
(***************************************************************************)
C2_CommentSpan ==
    Handled =>
        /\ (last.before = None /\ ~IsBlankRaw(last.raw) /\ StartHits(last.raw) # {}) =>
              LET p == multiline_comment_pairs[FirstHit(last.raw)] IN
              ~EndAfterStart(p, last.raw) =>
                  /\ last.cls = "COMMENT"
                  /\ Dropped
                  /\ current_comment_pair = p
        /\ last.before # None =>
              /\ last.cls = IF IsBlankRaw(last.raw) THEN "BLANK" ELSE "COMMENT"
              /\ Dropped
              /\ current_comment_pair =
                    IF Occurs(last.before[2], last.raw) THEN None ELSE last.before

\* the line that closes an open comment has been handled
C2_Witness ==
    /\ Handled
    /\ last.before # None
    /\ Occurs(last.before[2], last.raw)
    /\ last.cls = "COMMENT"
    /\ current_comment_pair = None

\* the fragments joined, the character each non-final fragment leaves out put back
RECURSIVE Rebuilt(_, _, _, _)
Rebuilt(parts, line, width, i) ==
    IF i > Len(parts) THEN << >>
    ELSE (IF i < Len(parts) THEN Append(parts[i], line[i * width]) ELSE parts[i])
         \o Rebuilt(parts, line, width, i + 1)

(***************************************************************************)
(* C3 as claimed. The fragments of a code line, concatenated in order with *)
(* the one reserved unit re-inserted after every non-final fragment,       *)
(* are the line: nothing is lost, duplicated or reordered.                 *)
(***************************************************************************)
C3_AsClaimed ==
    last.cls = "CODE" =>
        Rebuilt(last.parts, rstrip(last.raw), chars_in_line, 1) = rstrip(last.raw)

(***************************************************************************)
(* C4. A code line of length L is emitted as exactly ceil(L / W)           *)
(* fragments, W = chars_in_line (doubled); fragment i (from 0) is a        *)
(* non-empty piece of the line starting at offset i * W, and               *)
(* total_paragraph_count advances by the number of fragments.              *)
(***************************************************************************)
C4_FragmentCount ==
    last.cls = "CODE" =>
        LET line == rstrip(last.raw)
            n == Len(last.parts)
        IN /\ n * chars_in_line >= Len(line)
           /\ (n - 1) * chars_in_line < Len(line)
           /\ total_paragraph_count = last.count_before + n
           /\ doc_count = last.doc_before + n
           /\ \A i \in 1..n :
                 /\ last.parts[i] # << >>
                 /\ Len(last.parts[i]) <= chars_in_line
                 /\ \A j \in 1..Len(last.parts[i]) :
                        /\ (i - 1) * chars_in_line + j <= Len(line)
                        /\ last.parts[i][j] = line[(i - 1) * chars_in_line + j]

\* a line of three fragments, the last one short
C4_Witness ==
    /\ last.cls = "CODE"
    /\ Len(last.parts) = 3
    /\ Len(rstrip(last.raw)) % chars_in_line # 0

(***************************************************************************)
(* C5. The scanner does not leak across files: when a write_file call has  *)
(* begun the scanner is closed, and every line of the file gets the class  *)
(* and leaves the scanner as for a new writer given this file first;       *)
(* total_paragraph_count is what the previous file left.                   *)
(***************************************************************************)
C5_NoLeak ==
    /\ (pc = "writing" /\ ~Handled) =>
          /\ current_comment_pair = None
          /\ total_paragraph_count = file_start_count
    /\ current_comment_pair = fresh_pair
    /\ last.cls = last.fresh_cls

\* a call has begun after a file that ended inside a comment and emitted code
C5_Witness ==
    /\ pc = "writing"
    /\ ~Handled
    /\ last.before # None
    /\ current_comment_pair = None
    /\ total_paragraph_count > 0

\* the list without the entry file
NotEntry(files, entry) == SelectSeq(files, LAMBDA x : x # entry)

(***************************************************************************)
(* C6 as claimed. With an entry file, whatever the roots, the final list   *)
(* holds the entry file's absolute path exactly once, at index 0, and the  *)
(* other files in the order the walks gave them.                           *)
(***************************************************************************)
C6_AsClaimed ==
    (stage = "selected" /\ run.entry # None) =>
        /\ run.files # << >>
        /\ run.files[1] = run.entry
        /\ Cardinality({k \in 1..Len(run.files) : run.files[k] = run.entry}) = 1
        /\ NotEntry(run.files, run.entry) = NotEntry(concat(run.found), run.entry)

\* the directories above entry i, up to the top directory 0
RECURSIVE Ancestors(_, _)
Ancestors(f, i) == IF i = 0 THEN {} ELSE {f[i].parent} \cup Ancestors(f, f[i].parent)

IsPrefix(x, p) == \E n \in 0..Len(p) : SubSeq(p, 1, n) = x

EndsWith(s, e) == \E n \in 0..Len(s) : SubSeq(s, n + 1, Len(s)) = e

\* entry i and the directories between root r and it
Chain(f, r, i) == {i} \cup (Ancestors(f, i) \ (Ancestors(f, r) \cup {r}))

Selected(f, r, excludes, exts) ==
    {i \in 1..Len(f) :
        /\ f[i].is_file
        /\ r \in Ancestors(f, i)
        /\ \A j \in Chain(f, r, i) : f[j].name[1] # Dot
        /\ \A j \in Chain(f, r, i) : \A k \in 1..Len(excludes) :
               ~IsPrefix(excludes[k], path_of(f, j))
        /\ \E k \in 1..Len(exts) : EndsWith(f[i].name, exts[k])}

(***************************************************************************)
(* C7. find(root, excludes) returns exactly the regular files under root   *)
(* such that (1) neither the file's name nor the name of a directory       *)
(* between root and the file begins with ".", (2) no exclusion is a raw    *)
(* string prefix of the absolute path of the file or of such a directory,  *)
(* (3) the file's name ends with a configured extension (directories are   *)
(* not tested for the extension); each such file once.                     *)
(***************************************************************************)
C7_FindExactly ==
    stage = "found" =>
        \E r \in DirsOf(fs) :
            /\ path_of(fs, r) = run.indirs[1]
            /\ {run.files[k] : k \in 1..Len(run.files)} =
                  {path_of(fs, i) : i \in Selected(fs, r, run.excludes, run.exts)}
            /\ Len(run.files) = Cardinality(Selected(fs, r, run.excludes, run.exts))

\* an exclusion drops a visible code file directly under the root whose path it
\* only prefixes as a string
C7_Witness ==
    /\ stage = "found"
    /\ run.indirs[1] = TopPath
    /\ Len(run.excludes) = 1
    /\ \E i \in 1..Len(fs) :
          /\ fs[i].is_file
          /\ fs[i].parent = 0
          /\ fs[i].name[1] # Dot
          /\ EndsWith(fs[i].name, DEFAULT_EXTS[1])
          /\ IsPrefix(run.excludes[1], path_of(fs, i))
          /\ run.excludes[1] # path_of(fs, i)
          /\ \A k \in 1..Len(run.files) : run.files[k] # path_of(fs, i)

(***************************************************************************)
(* C8. A line of white space only (or empty) is BLANK and dropped whatever *)
(* the scanner, closed or open, and leaves current_comment_pair and        *)
(* total_paragraph_count as they were.                                     *)
(***************************************************************************)
C8_BlankFirst ==
    (Handled /\ IsBlankRaw(last.raw)) =>
        /\ last.cls = "BLANK"
        /\ Dropped
        /\ current_comment_pair = last.before

\* a line of a tab and its terminator inside an open comment
C8_Witness ==
    /\ Handled
    /\ \E i \in 1..Len(last.raw) : last.raw[i] = Tab
    /\ IsBlankRaw(last.raw)
    /\ last.before # None
    /\ current_comment_pair = last.before

(***************************************************************************)
(* C9. BLANK and COMMENT lines are never emitted: such a line appends no   *)
(* paragraph and leaves the counter alone, so a file of only such lines    *)
(* leaves the document and total_paragraph_count as it found them.         *)
(***************************************************************************)
C9_NothingEmitted ==
    /\ last.cls \in {"BLANK", "COMMENT"} => Dropped
    /\ ~file_has_code =>
          /\ doc_count = file_start_doc
          /\ total_paragraph_count = file_start_count
          /\ last.cls # "CODE"

\* a file of a comment line only has been written after a file that emitted code
C9_Witness ==
    /\ pc = "idle"
    /\ last.cls = "COMMENT"
    /\ ~file_has_code
    /\ file_start_count > 0
    /\ total_paragraph_count = file_start_count

(***************************************************************************)
(* C10. Scanner closed: the first configured pair, in table order, whose   *)
(* start delimiter occurs in the line decides. With its end delimiter      *)
(* after the start the line is COMMENT and the scanner stays closed;       *)
(* otherwise the line is COMMENT and the scanner opens with that pair.     *)
(* With no pair's start in the line the scanner stays closed, and the line *)
(* is COMMENT if it starts with a single-line prefix, else CODE (BLANK if  *)
(* empty).                                                                 *)
(***************************************************************************)
C10_FirstPairDecides ==
    (Handled /\ last.before = None) =>
        IF StartHits(last.raw) # {}
        THEN LET p == multiline_comment_pairs[FirstHit(last.raw)] IN
             /\ last.cls = "COMMENT"
             /\ current_comment_pair = IF EndAfterStart(p, last.raw) THEN None ELSE p
        ELSE /\ current_comment_pair = None
             /\ last.cls = IF IsBlankRaw(last.raw) THEN "BLANK"
                           ELSE IF HasPrefix(last.raw) THEN "COMMENT" ELSE "CODE"

\* two pairs start in the line; the one first in the table, not the one first in
\* the line, has opened the comment
C10_Witness ==
    /\ Handled
    /\ last.before = None
    /\ Cardinality(StartHits(last.raw)) = 2
    /\ \E i \in 0..Len(last.raw) :
          /\ OccursAt(multiline_comment_pairs[2][1], last.raw, i)
          /\ \A j \in 0..i : ~OccursAt(multiline_comment_pairs[1][1], last.raw, j)
    /\ current_comment_pair = multiline_comment_pairs[1]

====
